---------------------------- MODULE Spec2Model ----------------------------
(***************************************************************************)
(* browser-side-scroller: the game controller (BrowserSideScroller), the   *)
(* level (Level) and the game-over overlay (GameOverMessage).              *)
(*                                                                         *)
(* Units.  The player's gravity is 0.25 and its jump power 21.2, so every  *)
(* vertical position the program computes is a multiple of 0.05 pixels.    *)
(* All lengths of the model are integers counting twentieths of a pixel;   *)
(* Px(n) is n pixels.  A Math.random() result is k / RandDen for an        *)
(* integer k in 0 .. RandDen-1, and the model keeps k.                     *)
(***************************************************************************)
EXTENDS Integers, Sequences, FiniteSets, TLC

VARIABLES
    canvasHeight,   \* this.canvas.height
    gameRunning,    \* this.gameRunning
    lastTime,       \* this.lastTime
    keys,           \* this.keys, read as the program reads it: keys[k] is TRUE when
                    \* this.keys[k] is true, FALSE when it is false or absent
    level,          \* this.level: the current Level instance
    cameraX,        \* this.cameraX
    player,         \* this.player
    animationTime,  \* this.gameOverMessage.animationTime
    rafQueue,       \* gameLoop callbacks requestAnimationFrame holds for the next frame
    stale,          \* superseded Level instances whose loadTheme is still awaiting its fetch
    probe,          \* harness: arguments and result of the last direct call of a Level method
    twin            \* harness: a second Level, built directly on the default theme

vars == <<canvasHeight, gameRunning, lastTime, keys, level, cameraX, player,
          animationTime, rafQueue, stale, probe, twin>>

---------------------------------------------------------------------------
(* Bounds of the model *)

\* Math.random() takes the values 0/RandDen .. (RandDen-1)/RandDen
RandDen == 2
\* the Math.random() results one handler consumes repeat with this period
TapeLen == 2
\* an animation frame is run only while cameraX is below MaxFrames * gameSpeed
MaxFrames == 4
\* the same for the runs without input
MaxLiveFrames == 540
\* gameLoop callbacks held by requestAnimationFrame at once
MaxRaf == 2
\* superseded Level instances with a fetch in flight at once
MaxStale == 1

---------------------------------------------------------------------------
(* Values *)

Px(n) == n * 20

\* an absent value: an uninitialised field, a field the theme JSON does not have
Undefined == [undefined |-> TRUE]

IsDefined(v) == "undefined" \notin DOMAIN v

\* the canvas heights getBoundingClientRect() may report
CanvasHeights == {Px(300), Px(400)}

KeyNames == {" ", "Enter"}

\* the streams of Math.random() results
Tapes == [1..TapeLen -> 0..(RandDen - 1)]

Rand(tape, pos) == tape[((pos - 1) % Len(tape)) + 1]

---------------------------------------------------------------------------
(* Themes *)

DefaultTheme ==
    [ name |-> "Desert",
      spritePath |-> "sprites/world/desert",
      ground |-> [height |-> Px(50)],
      obstacles |->
        [ types |-> << [name |-> "cactus", width |-> Px(60), height |-> Px(120)],
                       [name |-> "rock", width |-> Px(80), height |-> Px(50)],
                       [name |-> "tumbleweed", width |-> Px(70), height |-> Px(70)] >>,
          generation |->
            [ count |-> 15,
              minDistance |-> Px(400),
              maxDistance |-> Px(800),
              startDistance |-> Px(200),
              safeZoneDistance |-> Px(1000),
              doubleObstacleChance |-> 30,      \* percent: 0.3
              doubleObstacleSpacing |-> Px(10) ] ],
      world |-> [width |-> Px(2000)] ]

\* a theme resource with a short safe zone and two obstacle types
MeadowTheme ==
    [ name |-> "Meadow",
      spritePath |-> "sprites/world/meadow",
      ground |-> [height |-> Px(50)],
      obstacles |->
        [ types |-> << [name |-> "bush", width |-> Px(20), height |-> Px(30)],
                       [name |-> "log", width |-> Px(40), height |-> Px(60)] >>,
          generation |->
            [ count |-> 2,
              minDistance |-> Px(600),
              maxDistance |-> Px(900),
              startDistance |-> Px(100),
              safeZoneDistance |-> Px(32),
              doubleObstacleChance |-> 30,
              doubleObstacleSpacing |-> Px(10) ] ],
      world |-> [width |-> Px(2000)] ]

\* theme resources that parse but lack a field of the schema
NoWorldTheme == [MeadowTheme EXCEPT !.name = "NoWorld", !.world = Undefined]

NoObstaclesTheme == [MeadowTheme EXCEPT !.name = "NoObstacles", !.obstacles = Undefined]

\* a theme resource whose first obstacle stands at 200
CanyonTheme ==
    [MeadowTheme EXCEPT !.name = "Canyon",
                        !.obstacles.generation.startDistance = Px(168)]

\* the theme resources the game is run with, and those a Level is tried with
GameThemes == {DefaultTheme, MeadowTheme, NoObstaclesTheme}

LevelThemes == GameThemes \cup {NoWorldTheme, CanyonTheme}

\* what `await fetch(themePath)` and `await response.json()` come to
Outcomes(themes) ==
    {[kind |-> "network_error"], [kind |-> "parse_error"]}
        \cup {[kind |-> "parsed", theme |-> t] : t \in themes}

---------------------------------------------------------------------------
(* Level *)

NewLevel(h) ==
    [ obstacles |-> << >>,
      sprites |-> {},
      theme |-> Undefined,
      canvasHeight |-> h,
      lastObstacleX |-> 0,
      pc |-> "fetching" ]

LoadSprites(lv) ==
    IF ~IsDefined(lv.theme) THEN lv
    ELSE [lv EXCEPT !.sprites =
            @ \cup {lv.theme.obstacles.types[i].name :
                        i \in 1..Len(lv.theme.obstacles.types)}]

\* Math.floor(Math.random() * n)
RandomIndex(r, n) == (r * n) \div RandDen

\* Math.random() < chance
RandomBelow(r, percent) == r * 100 < percent * RandDen

\* Math.random() * span
RandomSpan(r, span) == (r * span) \div RandDen

\* a generation step that leaves the second obstacle's width out of the cursor
GenerateForgetsSecondWidth(lv, currentX, tape, pos) ==
    IF ~IsDefined(lv.theme) THEN [lv |-> lv, nextX |-> currentX, pos |-> pos]
    ELSE
      LET config == lv.theme.obstacles
          obstacleType ==
              config.types[RandomIndex(Rand(tape, pos), Len(config.types)) + 1]
          y == lv.canvasHeight - lv.theme.ground.height - obstacleType.height
          first == [ x |-> currentX, y |-> y, width |-> obstacleType.width,
                     height |-> obstacleType.height, type |-> obstacleType.name ]
          double == RandomBelow(Rand(tape, pos + 1), config.generation.doubleObstacleChance)
          secondObstacleType ==
              config.types[RandomIndex(Rand(tape, pos + 2), Len(config.types)) + 1]
          secondY == lv.canvasHeight - lv.theme.ground.height - secondObstacleType.height
          secondX == currentX + obstacleType.width + config.generation.doubleObstacleSpacing
          second == [ x |-> secondX, y |-> secondY, width |-> secondObstacleType.width,
                      height |-> secondObstacleType.height,
                      type |-> secondObstacleType.name ]
          nextX == IF double THEN secondX ELSE currentX + obstacleType.width
          gapPos == IF double THEN pos + 3 ELSE pos + 2
      IN  [ lv |-> [lv EXCEPT !.obstacles =
                        IF double THEN @ \o <<first, second>> ELSE Append(@, first)],
            nextX |-> nextX + config.generation.minDistance
                        + RandomSpan(Rand(tape, gapPos),
                                     config.generation.maxDistance
                                        - config.generation.minDistance),
            pos |-> gapPos + 1 ]

\* a generation step: [lv, nextX, pos], pos the place reached in the random stream
GenerateObstacleAtPosition(lv, currentX, tape, pos) ==
    IF ~IsDefined(lv.theme) THEN [lv |-> lv, nextX |-> currentX, pos |-> pos]
    ELSE
      LET config == lv.theme.obstacles
          obstacleType ==
              config.types[RandomIndex(Rand(tape, pos), Len(config.types)) + 1]
          y == lv.canvasHeight - lv.theme.ground.height - obstacleType.height
          first == [ x |-> currentX, y |-> y, width |-> obstacleType.width,
                     height |-> obstacleType.height, type |-> obstacleType.name ]
          double == RandomBelow(Rand(tape, pos + 1), config.generation.doubleObstacleChance)
          secondObstacleType ==
              config.types[RandomIndex(Rand(tape, pos + 2), Len(config.types)) + 1]
          secondY == lv.canvasHeight - lv.theme.ground.height - secondObstacleType.height
          secondX == currentX + obstacleType.width + config.generation.doubleObstacleSpacing
          second == [ x |-> secondX, y |-> secondY, width |-> secondObstacleType.width,
                      height |-> secondObstacleType.height,
                      type |-> secondObstacleType.name ]
          nextX == IF double THEN secondX + secondObstacleType.width
                             ELSE currentX + obstacleType.width
          gapPos == IF double THEN pos + 3 ELSE pos + 2
      IN  [ lv |-> [lv EXCEPT !.obstacles =
                        IF double THEN @ \o <<first, second>> ELSE Append(@, first)],
            nextX |-> nextX + config.generation.minDistance
                        + RandomSpan(Rand(tape, gapPos),
                                     config.generation.maxDistance
                                        - config.generation.minDistance),
            pos |-> gapPos + 1 ]

RECURSIVE GenerateLoop(_, _, _, _, _)
\* for (let i = 0; i < count; i++) currentX = generateObstacleAtPosition(currentX)
GenerateLoop(lv, currentX, n, tape, pos) ==
    IF n <= 0 THEN [lv |-> lv, nextX |-> currentX, pos |-> pos]
    ELSE LET g == GenerateObstacleAtPosition(lv, currentX, tape, pos)
         IN  GenerateLoop(g.lv, g.nextX, n - 1, tape, g.pos)

\* generateInitialObstacles starting at startDistance, the safe zone left out
GenerateInitialNoSafeZone(lv, tape) ==
    IF ~IsDefined(lv.theme) THEN lv
    ELSE LET config == lv.theme.obstacles
             g == GenerateLoop(lv, config.generation.startDistance,
                               config.generation.count, tape, 1)
         IN  [g.lv EXCEPT !.lastObstacleX = g.nextX]

GenerateInitialObstacles(lv, tape) ==
    IF ~IsDefined(lv.theme) THEN lv
    ELSE LET config == lv.theme.obstacles
             g == GenerateLoop(lv,
                               config.generation.startDistance
                                    + config.generation.safeZoneDistance,
                               config.generation.count, tape, 1)
         IN  [g.lv EXCEPT !.lastObstacleX = g.nextX]

\* loadDefaultTheme without its generateInitialObstacles call
LoadDefaultThemeNoObstacles(lv, tape) ==
    LoadSprites([lv EXCEPT !.theme = DefaultTheme])

LoadDefaultTheme(lv, tape) ==
    GenerateInitialObstacles(LoadSprites([lv EXCEPT !.theme = DefaultTheme]), tape)

\* loadSprites or generateInitialObstacles reads a field of an absent object
LoadThrows(theme) == ~IsDefined(theme.obstacles)

\* loadTheme from the point its fetch settles
LoadTheme(lv, outcome, tape) ==
    LET done == [lv EXCEPT !.pc = "done"]
    IN  IF outcome.kind # "parsed" THEN LoadDefaultTheme(done, tape)
        ELSE IF LoadThrows(outcome.theme)
                THEN LoadDefaultTheme([done EXCEPT !.theme = outcome.theme], tape)
                ELSE GenerateInitialObstacles(
                        LoadSprites([done EXCEPT !.theme = outcome.theme]), tape)

GenerateAheadDistance == 1500

CleanupDistance == 500

RECURSIVE GenerateWhile(_, _, _, _)
\* while (this.lastObstacleX < this.cameraX + generateAheadDistance)
GenerateWhile(lv, camX, tape, pos) ==
    IF lv.lastObstacleX < camX + Px(GenerateAheadDistance)
    THEN LET g == GenerateObstacleAtPosition(lv, lv.lastObstacleX, tape, pos)
         IN  GenerateWhile([g.lv EXCEPT !.lastObstacleX = g.nextX], camX, tape, g.pos)
    ELSE lv

\* a cleanup that keeps the obstacle exactly cleanupDistance behind the camera
CleanupKeepsBoundary(obstacles, camX) ==
    SelectSeq(obstacles, LAMBDA o : o.x >= camX - Px(CleanupDistance))

\* a cleanup that hands the kept obstacles back in reverse order
CleanupReversed(obstacles, camX) ==
    LET kept == SelectSeq(obstacles, LAMBDA o : o.x > camX - Px(CleanupDistance))
    IN  [i \in 1..Len(kept) |-> kept[Len(kept) + 1 - i]]

\* the obstacles the cleanup keeps
Cleanup(obstacles, camX) ==
    SelectSeq(obstacles, LAMBDA o : o.x > camX - Px(CleanupDistance))

\* generateNewObstacles without its while loop
GenerateNewObstaclesCleanupOnly(lv, camX, tape) ==
    IF ~IsDefined(lv.theme) THEN lv
    ELSE [lv EXCEPT !.obstacles = Cleanup(@, camX)]

GenerateNewObstacles(lv, camX, tape) ==
    IF ~IsDefined(lv.theme) THEN lv
    ELSE LET g == GenerateWhile(lv, camX, tape, 1)
         IN  [g EXCEPT !.obstacles = Cleanup(@, camX)]

\* Level.render: what it changes of the Level.  Level.cameraX is assigned at the
\* top of render and read only by the methods render then calls, so it is the
\* argument camX here and no field of the instance.
LevelRender(lv, camX, tape) == GenerateNewObstacles(lv, camX, tape)

\* checkCollision asking every obstacle, not some obstacle, to overlap the box
CheckCollisionEvery(obstacles, playerX, playerY, playerWidth, playerHeight) ==
    \A i \in 1..Len(obstacles) :
        /\ playerX < obstacles[i].x + obstacles[i].width
        /\ playerX + playerWidth > obstacles[i].x
        /\ playerY < obstacles[i].y + obstacles[i].height
        /\ playerY + playerHeight > obstacles[i].y

\* checkCollision with inclusive comparisons
CheckCollisionInclusive(obstacles, playerX, playerY, playerWidth, playerHeight) ==
    \E i \in 1..Len(obstacles) :
        /\ playerX <= obstacles[i].x + obstacles[i].width
        /\ playerX + playerWidth >= obstacles[i].x
        /\ playerY <= obstacles[i].y + obstacles[i].height
        /\ playerY + playerHeight >= obstacles[i].y

CheckCollision(obstacles, playerX, playerY, playerWidth, playerHeight) ==
    \E i \in 1..Len(obstacles) :
        /\ playerX < obstacles[i].x + obstacles[i].width
        /\ playerX + playerWidth > obstacles[i].x
        /\ playerY < obstacles[i].y + obstacles[i].height
        /\ playerY + playerHeight > obstacles[i].y

---------------------------------------------------------------------------
(* BrowserSideScroller *)

\* gameSpeed
GameSpeed == Px(2)

\* jumpPower 21.2 and gravity 0.25, in twentieths of a pixel
JumpPower == 424

Gravity == 5

PlayerStartX == Px(50)

PlayerSize == Px(80)

\* the player's y when it stands on the ground: canvas.height - 130
GroundAnchor(h) == h - Px(130)

\* the ground line of update(): canvas.height - 50
GroundY(h) == h - Px(50)

\* Date.now(), milliseconds: two instants one frame apart, far above fadeInDuration
\* and below 2^30, so that two readings can be added in 32-bit integers
Nows == {1000000000, 1000000016}

\* this.keys = {}
NoKeys == [k \in KeyNames |-> FALSE]

\* this.keys[key] = value
SetKey(ks, key, value) == [ks EXCEPT ![key] = value]

\* this.keys[key] read as a condition
KeyHeld(ks, key) == ks[key]

NewPlayer(h) ==
    [ x |-> PlayerStartX, y |-> GroundAnchor(h), width |-> PlayerSize,
      height |-> PlayerSize, velocityY |-> 0, isJumping |-> FALSE ]

\* the controller's fields as one record, for the operators that follow
Controller ==
    [ canvasHeight |-> canvasHeight, gameRunning |-> gameRunning,
      lastTime |-> lastTime, keys |-> keys, level |-> level, cameraX |-> cameraX,
      player |-> player, animationTime |-> animationTime, rafQueue |-> 0,
      hit |-> FALSE ]

\* GameOverMessage.reset
OverlayReset(c) == [c EXCEPT !.animationTime = 0]

\* the jump of update() without the `!this.player.isJumping` test
UpdateJumpAnytime(p, ks) ==
    IF KeyHeld(ks, " ")
    THEN [p EXCEPT !.velocityY = -JumpPower, !.isJumping = TRUE]
    ELSE p

\* update(): the jump
UpdateJump(p, ks) ==
    IF KeyHeld(ks, " ") /\ ~p.isJumping
    THEN [p EXCEPT !.velocityY = -JumpPower, !.isJumping = TRUE]
    ELSE p

\* update(): gravity
UpdateGravity(p) ==
    LET v == p.velocityY + Gravity
    IN  [p EXCEPT !.velocityY = v, !.y = @ + v]

\* update() without its ground collision
UpdateGroundNoClamp(p, h) == p

\* update(): the ground collision
UpdateGround(p, h) ==
    IF p.y + p.height >= GroundY(h)
    THEN [p EXCEPT !.y = GroundY(h) - p.height, !.velocityY = 0, !.isJumping = FALSE]
    ELSE p

\* update() with the collision test inverted
UpdateInvertedTest(c) ==
    LET p == UpdateGround(UpdateGravity(UpdateJump(c.player, c.keys)), c.canvasHeight)
        camX == c.cameraX + GameSpeed
        collides == CheckCollision(c.level.obstacles, p.x + camX, p.y, p.width, p.height)
        moved == [c EXCEPT !.player = p, !.cameraX = camX, !.hit = collides]
    IN  IF ~collides THEN [OverlayReset(moved) EXCEPT !.gameRunning = FALSE] ELSE moved

\* update() testing the player's screen x, not its world x
UpdateScreenSpace(c) ==
    LET p == UpdateGround(UpdateGravity(UpdateJump(c.player, c.keys)), c.canvasHeight)
        camX == c.cameraX + GameSpeed
        collides == CheckCollision(c.level.obstacles, p.x, p.y, p.width, p.height)
        moved == [c EXCEPT !.player = p, !.cameraX = camX]
    IN  IF collides
        THEN [OverlayReset(moved) EXCEPT !.gameRunning = FALSE, !.hit = TRUE]
        ELSE moved

\* update() without `this.gameOverMessage.reset()`
UpdateNoReset(c) ==
    LET p == UpdateGround(UpdateGravity(UpdateJump(c.player, c.keys)), c.canvasHeight)
        camX == c.cameraX + GameSpeed
        collides == CheckCollision(c.level.obstacles, p.x + camX, p.y, p.width, p.height)
        moved == [c EXCEPT !.player = p, !.cameraX = camX]
    IN  IF collides
        THEN [moved EXCEPT !.gameRunning = FALSE, !.hit = TRUE]
        ELSE moved

\* update()
Update(c) ==
    LET p == UpdateGround(UpdateGravity(UpdateJump(c.player, c.keys)), c.canvasHeight)
        camX == c.cameraX + GameSpeed
        collides == CheckCollision(c.level.obstacles, p.x + camX, p.y, p.width, p.height)
        moved == [c EXCEPT !.player = p, !.cameraX = camX]
    IN  IF collides
        THEN [OverlayReset(moved) EXCEPT !.gameRunning = FALSE, !.hit = TRUE]
        ELSE moved

\* fadeInDuration, milliseconds
FadeInDuration == 500

\* opacity 1, opacities being counted in thousandths
OpacityOne == 1000

\* Math.min(1, animationTime / fadeInDuration) without the clamp
OpacityUnclamped(t) == (t * OpacityOne) \div FadeInDuration

\* Math.min(1, animationTime / fadeInDuration), in thousandths: the quotient is 1
\* or more exactly when animationTime >= fadeInDuration, and below that it is a
\* whole number of thousandths, 2 for each millisecond
Opacity(t) ==
    IF t >= FadeInDuration THEN OpacityOne ELSE (t * OpacityOne) \div FadeInDuration

\* `if (opacity < 0.1) return` not taken: the score and the label are drawn
ContentShown(t) == ~(Opacity(t) < OpacityOne \div 10)

\* distance / 10 rounded up
MetersRoundedUp(distance) == (distance + Px(10) - 1) \div Px(10)

\* Math.floor(distance / 10)
Meters(distance) == distance \div Px(10)

\* getAchievementMessage with inclusive upper bounds (meters <= threshold)
AchievementUpperInclusive(distance) ==
    LET meters == Meters(distance)
    IN  IF meters <= 50 THEN "Keep practicing!"
        ELSE IF meters <= 100 THEN "Getting warmed up!"
        ELSE IF meters <= 200 THEN "Nice run!"
        ELSE IF meters <= 300 THEN "Great distance!"
        ELSE IF meters <= 500 THEN "Excellent performance!"
        ELSE IF meters <= 750 THEN "Outstanding run!"
        ELSE IF meters <= 1000 THEN "Amazing achievement!"
        ELSE IF meters <= 1500 THEN "Legendary distance!"
        ELSE "SONIC SPEED MASTER!"

\* getAchievementMessage
GetAchievementMessage(distance) ==
    LET meters == Meters(distance)
    IN  IF meters < 50 THEN "Keep practicing!"
        ELSE IF meters < 100 THEN "Getting warmed up!"
        ELSE IF meters < 200 THEN "Nice run!"
        ELSE IF meters < 300 THEN "Great distance!"
        ELSE IF meters < 500 THEN "Excellent performance!"
        ELSE IF meters < 750 THEN "Outstanding run!"
        ELSE IF meters < 1000 THEN "Amazing achievement!"
        ELSE IF meters < 1500 THEN "Legendary distance!"
        ELSE "SONIC SPEED MASTER!"

\* what GameOverMessage.render draws for a distance, its clock at t
OverlayDrawn(t, distance) ==
    [ opacity |-> Opacity(t),
      shown |-> ContentShown(t),
      meters |-> Meters(distance),
      label |-> GetAchievementMessage(distance) ]

\* GameOverMessage.render: the animation clock
OverlayRender(c, deltaTime) == [c EXCEPT !.animationTime = @ + deltaTime]

\* render()
Render(c, tape, now) ==
    LET drawn == [c EXCEPT !.level = LevelRender(c.level, c.cameraX, tape)]
    IN  IF drawn.gameRunning THEN drawn ELSE OverlayRender(drawn, now - drawn.lastTime)

\* gameLoop without `if (!this.gameRunning) return`
GameLoopAlwaysUpdates(c, tape, now) ==
    [Render(Update(c), tape, now) EXCEPT !.rafQueue = @ + 1]

\* gameLoop: one callback
GameLoop(c, tape, now) ==
    IF ~c.gameRunning THEN c
    ELSE [Render(Update(c), tape, now) EXCEPT !.rafQueue = @ + 1]

RECURSIVE RunCallbacks(_, _, _, _)
\* the callbacks requestAnimationFrame held for this frame, one after the other
RunCallbacks(c, n, tape, now) ==
    IF n = 0 THEN c ELSE RunCallbacks(GameLoop(c, tape, now), n - 1, tape, now)

\* a Level instance is dropped by the controller: its fetch, if in flight, goes on
Superseded(lv) == IF lv.pc = "fetching" THEN Append(stale, lv) ELSE stale

CanSupersede(lv) == lv.pc = "fetching" => Len(stale) < MaxStale

\* restartGame() without `this.keys = {}`
RestartKeepsKeys(c) ==
    [OverlayReset(c) EXCEPT
        !.player = [@ EXCEPT !.x = PlayerStartX, !.y = GroundAnchor(c.canvasHeight),
                             !.velocityY = 0, !.isJumping = FALSE],
        !.cameraX = 0,
        !.gameRunning = TRUE,
        !.level = NewLevel(c.canvasHeight),
        !.rafQueue = @ + 1]

\* restartGame()
RestartGame(c) ==
    [OverlayReset(c) EXCEPT
        !.player = [@ EXCEPT !.x = PlayerStartX, !.y = GroundAnchor(c.canvasHeight),
                             !.velocityY = 0, !.isJumping = FALSE],
        !.cameraX = 0,
        !.gameRunning = TRUE,
        !.level = NewLevel(c.canvasHeight),
        !.keys = NoKeys,
        !.rafQueue = @ + 1]

\* the keydown handler restarting on Enter whether or not the game runs
OnKeyDownAlwaysRestarts(c, key) ==
    LET pressed == [c EXCEPT !.keys = SetKey(@, key, TRUE)]
    IN  IF key = "Enter" THEN RestartGame(pressed) ELSE pressed

\* the keydown handler
OnKeyDown(c, key) ==
    LET pressed == [c EXCEPT !.keys = SetKey(@, key, TRUE)]
    IN  IF key = "Enter" /\ ~pressed.gameRunning THEN RestartGame(pressed) ELSE pressed

\* the fields of a controller record become the next state
Becomes(c, queue, staleNow) ==
    /\ canvasHeight' = c.canvasHeight
    /\ gameRunning' = c.gameRunning
    /\ lastTime' = c.lastTime
    /\ keys' = c.keys
    /\ level' = c.level
    /\ cameraX' = c.cameraX
    /\ player' = c.player
    /\ animationTime' = c.animationTime
    /\ rafQueue' = queue
    /\ stale' = staleNow
    /\ UNCHANGED <<probe, twin>>

---------------------------------------------------------------------------
(* The state after construction, and the handlers *)

GameInit ==
    /\ canvasHeight \in CanvasHeights
    /\ gameRunning = FALSE
    /\ lastTime = 0
    /\ keys = NoKeys
    /\ level = NewLevel(canvasHeight)
    /\ cameraX = 0
    /\ player = NewPlayer(canvasHeight)
    /\ animationTime = 0
    /\ rafQueue = 0
    /\ stale = << >>

\* no Level method has been called directly
NoCall == [call |-> "none"]

Init ==
    /\ GameInit
    /\ probe = NoCall
    /\ twin = Undefined

\* run()
Run ==
    /\ rafQueue < MaxRaf
    /\ Becomes([Controller EXCEPT !.gameRunning = TRUE], rafQueue + 1, stale)

\* stop()
Stop ==
    Becomes([Controller EXCEPT !.gameRunning = FALSE], rafQueue, stale)

KeyDown(key) ==
    \E c \in {OnKeyDown(Controller, key)} :
        /\ c.rafQueue > 0 => (rafQueue < MaxRaf /\ CanSupersede(level))
        /\ Becomes(c, rafQueue + c.rafQueue,
                   IF c.rafQueue > 0 THEN Superseded(level) ELSE stale)

\* the keyup handler
KeyUp(key) ==
    Becomes([Controller EXCEPT !.keys = SetKey(@, key, FALSE)], rafQueue, stale)

\* resizeCanvas() without `this.level = new Level(this.canvas.height)`
ResizeKeepsLevel(h) ==
    /\ CanSupersede(level)
    /\ Becomes([Controller EXCEPT !.canvasHeight = h,
                                  !.player = [@ EXCEPT !.y = GroundAnchor(h)]],
               rafQueue, stale)

\* resizeCanvas(), as the window's resize listener
Resize(h) ==
    /\ CanSupersede(level)
    /\ Becomes([Controller EXCEPT !.canvasHeight = h,
                                  !.player = [@ EXCEPT !.y = GroundAnchor(h)],
                                  !.level = NewLevel(h)],
               rafQueue, Superseded(level))

\* one animation frame: every callback held for it runs
Frame(maxFrames) ==
    /\ rafQueue > 0
    /\ gameRunning => cameraX < maxFrames * GameSpeed
    /\ \E tape \in Tapes, now \in Nows :
          \E c \in {RunCallbacks(Controller, rafQueue, tape, now)} :
              Becomes(c, c.rafQueue, stale)

AnimationFrame == Frame(MaxFrames)

\* the current Level's fetch settles and loadTheme runs to its end
ThemeLoaded ==
    /\ level.pc = "fetching"
    /\ \E outcome \in Outcomes(GameThemes), tape \in Tapes :
          Becomes([Controller EXCEPT !.level = LoadTheme(level, outcome, tape)],
                  rafQueue, stale)

\* stale without its i-th Level
StaleWithout(i) == SubSeq(stale, 1, i - 1) \o SubSeq(stale, i + 1, Len(stale))

\* the fetch of a superseded Level settles and its loadTheme assigns to the
\* controller's Level, not to its own instance
StaleThemeLoadedIntoCurrent ==
    \E i \in 1..Len(stale), outcome \in Outcomes(GameThemes), tape \in Tapes :
        \E loaded \in {LoadTheme(stale[i], outcome, tape)} :
            /\ loaded.pc = "done"
            /\ Becomes([Controller EXCEPT !.level = loaded], rafQueue, StaleWithout(i))

\* the fetch of a superseded Level settles: loadTheme runs to its end on that
\* instance, assigning its theme, sprites, obstacles and spawn cursor; nothing
\* refers to the instance any more, and it is gone once its load has ended
StaleThemeLoaded ==
    \E i \in 1..Len(stale) :
        IF \E outcome \in Outcomes(GameThemes), tape \in Tapes :
              LoadTheme(stale[i], outcome, tape).pc = "done"
        THEN Becomes(Controller, rafQueue, StaleWithout(i))
        ELSE FALSE

Next ==
    \/ Run
    \/ Stop
    \/ \E key \in KeyNames : KeyDown(key)
    \/ \E key \in KeyNames : KeyUp(key)
    \/ \E h \in CanvasHeights : Resize(h)
    \/ AnimationFrame
    \/ ThemeLoaded
    \/ StaleThemeLoaded

Spec == Init /\ [][Next]_vars

---------------------------------------------------------------------------
(* The game before run() is ever called *)

NextBeforeRun ==
    \/ Stop
    \/ \E key \in KeyNames : KeyDown(key)
    \/ \E key \in KeyNames : KeyUp(key)
    \/ \E h \in CanvasHeights : Resize(h)
    \/ AnimationFrame
    \/ ThemeLoaded
    \/ StaleThemeLoaded

SpecBeforeRun == Init /\ [][NextBeforeRun]_vars

---------------------------------------------------------------------------
(* A run without input: the theme is loaded, run() is called, frames arrive *)

\* run() is called once, when the theme has loaded
RunLoaded == level.pc = "done" /\ ~gameRunning /\ rafQueue = 0 /\ cameraX = 0 /\ Run

LiveFrame == Frame(MaxLiveFrames)

NextLive ==
    \/ ThemeLoaded
    \/ RunLoaded
    \/ LiveFrame

SpecLive == Init /\ [][NextLive]_vars /\ WF_vars(LiveFrame)

---------------------------------------------------------------------------
(* A run while the theme is still loading, long enough for whole jumps: run() *)
(* once, the space key pressed and released, frames                           *)

\* frames followed in the runs with jumps; a jump lasts 169 frames
MaxJumpFrames == 175

RunOnce == ~gameRunning /\ rafQueue = 0 /\ cameraX = 0 /\ Run

JumpFrame == Frame(MaxJumpFrames)

NextJump ==
    \/ RunOnce
    \/ KeyDown(" ")
    \/ KeyUp(" ")
    \/ JumpFrame

SpecJump == Init /\ [][NextJump]_vars

---------------------------------------------------------------------------
(* A Level driven through its own interface: its fetch settles, render is   *)
(* called with a camera that moves forward, checkCollision is called        *)

\* render is called with the camera at a multiple of CameraStride, up to this many
MaxCameraStops == 3

CameraStride == Px(700)

CameraStops == {n * CameraStride : n \in 0..MaxCameraStops}

\* the boxes checkCollision is called with: the player's box at a height above
\* the ground, at an offset from the camera
ProbeBoxes(camX, h) ==
    { [x |-> camX + dx, y |-> GroundAnchor(h) - dy, width |-> PlayerSize,
       height |-> PlayerSize] : dx \in {Px(50), Px(500), Px(1200)}, dy \in {0, Px(100)} }

gameVars == <<canvasHeight, gameRunning, lastTime, keys, player, animationTime,
              rafQueue, stale>>

LevelLoaded ==
    /\ level.pc = "fetching"
    /\ \E outcome \in Outcomes(LevelThemes), tape \in Tapes :
          /\ level' = LoadTheme(level, outcome, tape)
          /\ probe' = [call |-> "loadTheme", outcome |-> outcome]
    /\ UNCHANGED <<gameVars, cameraX, twin>>

LevelRendered ==
    /\ \E camX \in CameraStops, tape \in Tapes :
          /\ camX >= cameraX
          /\ cameraX' = camX
          /\ level' = LevelRender(level, camX, tape)
          /\ probe' = [call |-> "render", before |-> level.obstacles]
    /\ UNCHANGED <<gameVars, twin>>

LevelChecked ==
    /\ \E box \in ProbeBoxes(cameraX, canvasHeight) :
          probe' = [ call |-> "checkCollision", box |-> box,
                     result |-> CheckCollision(level.obstacles, box.x, box.y,
                                               box.width, box.height) ]
    /\ UNCHANGED <<gameVars, cameraX, level, twin>>

NextLevel ==
    \/ LevelLoaded
    \/ LevelRendered
    \/ LevelChecked

SpecLevel == Init /\ [][NextLevel]_vars

---------------------------------------------------------------------------
(* Two Levels side by side: the fetch of `level` fails, the fetch of `twin`  *)
(* delivers the default theme; both then get the same calls and the same    *)
(* Math.random() results                                                    *)

InitFallback ==
    /\ GameInit
    /\ probe = NoCall
    /\ twin = NewLevel(canvasHeight)

FailureKinds == {"network_error", "parse_error"}

BothLoaded ==
    /\ level.pc = "fetching"
    /\ \E kind \in FailureKinds, tape \in Tapes :
          /\ level' = LoadTheme(level, [kind |-> kind], tape)
          /\ twin' = LoadTheme(twin, [kind |-> "parsed", theme |-> DefaultTheme], tape)
          /\ probe' = [call |-> "loadTheme", outcome |-> [kind |-> kind]]
    /\ UNCHANGED <<gameVars, cameraX>>

BothRendered ==
    /\ \E camX \in CameraStops, tape \in Tapes :
          /\ camX >= cameraX
          /\ cameraX' = camX
          /\ level' = LevelRender(level, camX, tape)
          /\ twin' = LevelRender(twin, camX, tape)
          /\ probe' = [call |-> "render", before |-> level.obstacles]
    /\ UNCHANGED gameVars

BothChecked ==
    /\ \E box \in ProbeBoxes(cameraX, canvasHeight) :
          probe' = [ call |-> "checkCollision", box |-> box,
                     result |-> CheckCollision(level.obstacles, box.x, box.y,
                                               box.width, box.height),
                     twinResult |-> CheckCollision(twin.obstacles, box.x, box.y,
                                                   box.width, box.height) ]
    /\ UNCHANGED <<gameVars, cameraX, level, twin>>

NextFallback ==
    \/ BothLoaded
    \/ BothRendered
    \/ BothChecked

SpecFallback == InitFallback /\ [][NextFallback]_vars

---------------------------------------------------------------------------
(* checkCollision on its own: boxes on a small grid *)

\* the grid's coordinates are 0 .. MaxCoord, a box's sides 1 .. MaxSide
MaxCoord == 3

MaxSide == 2

\* obstacles in the list checkCollision walks
MaxObstacles == 2

GridBoxes ==
    [x : 0..MaxCoord, y : 0..MaxCoord, width : 1..MaxSide, height : 1..MaxSide]

\* obstacle boxes: squares on the diagonal, off the grid's border, so that a
\* player box can lie on every side of them
ObstacleBoxes ==
    {b \in GridBoxes : b.x >= 1 /\ b.x < MaxCoord /\ b.y = b.x /\ b.height = b.width}

ObstacleLists == UNION {[1..n -> ObstacleBoxes] : n \in 0..MaxObstacles}

InitCollision ==
    /\ GameInit
    /\ canvasHeight = Px(400)
    /\ twin = Undefined
    /\ probe \in [call : {"pending"}, obstacles : ObstacleLists, box : GridBoxes]

CollisionCalled ==
    /\ probe.call = "pending"
    /\ probe' = [ call |-> "checkCollision", obstacles |-> probe.obstacles,
                  box |-> probe.box,
                  result |-> CheckCollision(probe.obstacles, probe.box.x, probe.box.y,
                                            probe.box.width, probe.box.height) ]
    /\ UNCHANGED <<gameVars, cameraX, level, twin>>

SpecCollision == InitCollision /\ [][CollisionCalled]_vars

---------------------------------------------------------------------------
(* The game-over overlay on its own: after a reset, GameOverMessage.render is *)
(* called with the distance of the ended run                                  *)

\* the overlay's clock is followed up to this many milliseconds
MaxAnimationTime == 520

\* the ended run lasted up to this many frames
MaxScoreFrames == 7550

\* milliseconds between two render calls
FrameTimes == {0, 1, 16}

\* the distances a run can end at: cameraX after a number of frames
Distances == {k * GameSpeed : k \in 0..MaxScoreFrames}

InitOverlay(distances) ==
    /\ canvasHeight = Px(400)
    /\ gameRunning = FALSE
    /\ lastTime = 0
    /\ keys = NoKeys
    /\ level = NewLevel(canvasHeight)
    /\ cameraX \in distances
    /\ player = NewPlayer(canvasHeight)
    /\ animationTime = 0
    /\ rafQueue = 0
    /\ stale = << >>
    /\ probe = NoCall
    /\ twin = Undefined

\* gameOverMessage.render(ctx, width, height, this.cameraX, deltaTime)
OverlayRenderedAfter(deltaTime) ==
    \E c \in {OverlayRender(Controller, deltaTime)} :
        /\ animationTime' = c.animationTime
        /\ probe' = [ call |-> "overlay",
                      previous |-> IF probe.call = "overlay"
                                   THEN probe.drawn.opacity ELSE 0,
                      drawn |-> OverlayDrawn(c.animationTime, cameraX) ]
        /\ UNCHANGED <<canvasHeight, gameRunning, lastTime, keys, level, cameraX,
                       player, rafQueue, stale, twin>>

\* the overlay is rendered again, a frame time later
OpacityRendered ==
    \E deltaTime \in FrameTimes :
        /\ animationTime + deltaTime <= MaxAnimationTime
        /\ OverlayRenderedAfter(deltaTime)

InitOpacity == InitOverlay({0, Px(5000)})

SpecOpacity == InitOpacity /\ [][OpacityRendered]_vars

\* the one overlay render of an ended run: deltaTime = Date.now() - this.lastTime
ScoreRendered ==
    /\ probe = NoCall
    /\ \E now \in Nows : OverlayRenderedAfter(now - lastTime)

InitScore == InitOverlay(Distances)

SpecScore == InitScore /\ [][ScoreRendered]_vars

---------------------------------------------------------------------------
(* Properties *)

\* the player's box, in world space, is in a live obstacle of the current Level
PlayerCollides ==
    CheckCollision(level.obstacles, player.x + cameraX, player.y,
                   player.width, player.height)

\* an animation frame in which an update's collision test is true
CollisionFrame ==
    /\ rafQueue > 0
    /\ \E tape \in Tapes, now \in Nows :
          \E c \in {RunCallbacks(Controller, rafQueue, tape, now)} :
              c.hit /\ Becomes(c, c.rafQueue, stale)

\* the game is over: it is not running and the player is in an obstacle
GameOver == ~gameRunning /\ PlayerCollides

\* C1, as amended: gameRunning turns false only in an animation frame whose
\* update finds a collision or by stop(), and it turns true only by an Enter
\* keydown or by run(); no other frame, no resize, no theme load (of the current
\* or of a superseded Level) and no other key changes it.
C1_RunStateMachine ==
    [][ /\ (gameRunning /\ ~gameRunning') => (Stop \/ CollisionFrame)
        /\ (~gameRunning /\ gameRunning') => (KeyDown("Enter") \/ Run) ]_vars

\* C1 as claimed: once the game is over, only an Enter keydown makes it run again.
C1_OnlyEnterLeavesGameOver ==
    [][ /\ (gameRunning /\ ~gameRunning') => (Stop \/ CollisionFrame)
        /\ (GameOver /\ gameRunning') => KeyDown("Enter") ]_vars

\* C1's case: a collision has ended the run and the frame loop is still scheduled.
C1_Witness == GameOver /\ rafQueue > 0 /\ animationTime > 0

\* C2: an Enter keydown while the game runs sets keys["Enter"] and changes nothing
\* else: not the camera, the player, the Level, the overlay clock, the run state
\* or the scheduled callbacks.
C2_EnterWhileRunning ==
    [][ (gameRunning /\ KeyDown("Enter")) =>
            /\ keys' = SetKey(keys, "Enter", TRUE)
            /\ UNCHANGED <<cameraX, player, level, animationTime, gameRunning,
                           rafQueue, stale, canvasHeight, lastTime>> ]_vars

\* C2's case: Enter went down during a run that had advanced, and is recorded.
C2_Witness ==
    gameRunning /\ keys["Enter"] /\ cameraX > 0 /\ Len(level.obstacles) > 0

\* C3 as claimed: with run() never called, the game is not running and no update
\* has moved the camera.
C3_IdleBeforeRun == ~gameRunning /\ cameraX = 0

\* C4: an Enter keydown while the game is not running leaves the player at x = 50
\* on the ground anchor of the current canvas height, at rest; the camera at 0;
\* the game running; no key held; the overlay clock at 0; and a new Level for the
\* current canvas height, with no theme, no obstacle and its spawn cursor at 0.
C4_RestartIsFresh ==
    [][ (~gameRunning /\ KeyDown("Enter")) =>
            /\ player'.x = Px(50)
            /\ player'.y = canvasHeight' - Px(130)
            /\ player'.velocityY = 0
            /\ ~player'.isJumping
            /\ cameraX' = 0
            /\ gameRunning'
            /\ \A k \in KeyNames : ~keys'[k]
            /\ animationTime' = 0
            /\ level'.obstacles = << >>
            /\ level'.lastObstacleX = 0
            /\ ~IsDefined(level'.theme)
            /\ level'.pc = "fetching"
            /\ level'.canvasHeight = canvasHeight' ]_vars

\* C4's case: a game ended by a collision in mid-jump, the camera advanced, the
\* space key held and the overlay drawn, in which Enter can go down.
C4_Witness ==
    /\ GameOver /\ player.isJumping /\ keys[" "] /\ cameraX > 0
    /\ animationTime > 0 /\ player.velocityY # 0
    /\ rafQueue < MaxRaf

\* the player's world box overlaps, along x, the first obstacle the Level generated
FirstObstacleReached ==
    /\ Len(level.obstacles) > 0
    /\ cameraX + player.x < level.obstacles[1].x + level.obstacles[1].width
    /\ cameraX + player.x + player.width > level.obstacles[1].x

\* C5: in a run started on a loaded theme, with frames arriving and no key, resize
\* or stop(), the game stops running, and it never runs on in a state where the
\* player's world box overlaps the first generated obstacle: the update that
\* brings the overlap about ends the run.
C5_NoInputRunEnds ==
    /\ gameRunning ~> ~gameRunning
    /\ [](gameRunning => ~FirstObstacleReached)

\* C5's case: the run on the default theme has ended at its first obstacle, 1200
\* pixels out.
C5_Witness ==
    /\ ~gameRunning /\ level.theme = DefaultTheme /\ FirstObstacleReached
    /\ PlayerCollides /\ cameraX > Px(1000)

\* the unit cells of the grid a box [x, x+w) x [y, y+h) covers
Cells(b) ==
    {<<i, j>> : i \in b.x..(b.x + b.width - 1), j \in b.y..(b.y + b.height - 1)}

\* C6: checkCollision is true exactly when the box shares a cell, that is a
\* region of positive area, with the box of one of the obstacles.
C6_CollisionIffOverlap ==
    probe.call = "checkCollision" =>
        (probe.result <=>
            \E i \in 1..Len(probe.obstacles) :
                Cells(probe.box) \cap Cells(probe.obstacles[i]) # {})

\* C6's case: the box ends where the only obstacle begins (x + w = obstacle.x),
\* level with it, and the call answers false.
C6_Witness ==
    /\ probe.call = "checkCollision" /\ ~probe.result
    /\ Len(probe.obstacles) = 1
    /\ probe.box.x + probe.box.width = probe.obstacles[1].x
    /\ probe.box.y = probe.obstacles[1].y

\* from the end of obstacle i to the start of obstacle i + 1
Gap(obstacles, i) == obstacles[i + 1].x - (obstacles[i].x + obstacles[i].width)

InSpawnRange(d, generation) ==
    d >= generation.minDistance /\ d <= generation.maxDistance

\* C7: in a loaded Level each obstacle starts either minDistance .. maxDistance
\* after the end of the one before it, or, as the second of a double placement,
\* exactly doubleObstacleSpacing after it, and then the next one is again
\* minDistance .. maxDistance further; the spawn cursor is minDistance ..
\* maxDistance after the end of the last obstacle.
C7_ObstacleSpacing ==
    IsDefined(level.theme) =>
        LET generation == level.theme.obstacles.generation
            obs == level.obstacles
        IN  /\ \A i \in 1..(Len(obs) - 1) :
                  \/ InSpawnRange(Gap(obs, i), generation)
                  \/ /\ Gap(obs, i) = generation.doubleObstacleSpacing
                     /\ i + 1 < Len(obs) => InSpawnRange(Gap(obs, i + 1), generation)
            /\ Len(obs) > 0 =>
                  InSpawnRange(level.lastObstacleX
                                  - (obs[Len(obs)].x + obs[Len(obs)].width), generation)

\* C7's case: a render away from the origin has generated ahead, and the list
\* holds a double placement and a single one.
C7_Witness ==
    /\ IsDefined(level.theme) /\ probe.call = "render" /\ cameraX > 0
    /\ Len(level.obstacles) > Len(probe.before)
    /\ \E i \in 1..(Len(level.obstacles) - 1) :
          Gap(level.obstacles, i) = level.theme.obstacles.generation.doubleObstacleSpacing
    /\ \E i \in 1..(Len(level.obstacles) - 1) :
          Gap(level.obstacles, i) >= level.theme.obstacles.generation.minDistance

\* where the first obstacle of a theme may stand
SafeZoneEnd(theme) ==
    theme.obstacles.generation.startDistance
        + theme.obstacles.generation.safeZoneDistance

\* C8: no obstacle of the current Level, whichever instance that is, stands before
\* startDistance + safeZoneDistance, and the load that fills a Level puts its
\* first obstacle exactly there.
C8_SafeZone ==
    /\ [](IsDefined(level.theme) =>
            \A i \in 1..Len(level.obstacles) :
                level.obstacles[i].x >= SafeZoneEnd(level.theme))
    /\ [][(level.pc = "fetching" /\ level'.pc = "done" /\ Len(level'.obstacles) > 0)
            => level'.obstacles[1].x = SafeZoneEnd(level'.theme)]_vars

\* C8's case: a Level that superseded another one in mid-run (by a resize or a
\* restart) has loaded and holds obstacles.
C8_Witness ==
    /\ IsDefined(level.theme) /\ Len(level.obstacles) > 0
    /\ Len(stale) > 0 /\ cameraX > 0 /\ gameRunning

\* C9: once the failed fetch has been recovered, the Level's theme is the default
\* theme and the Level equals, field by field (obstacles, sprites, spawn cursor),
\* the Level whose fetch delivered the default theme, after the same calls with
\* the same Math.random() results; every checkCollision call gives the same
\* answer on both.  loadTheme has run to its end: nothing fetches again.
C9_FallbackIsDefault ==
    level.pc = "done" =>
        /\ level.theme = DefaultTheme
        /\ level = twin
        /\ probe.call = "checkCollision" => probe.result = probe.twinResult

\* C9's case: after the fallback and a render away from the origin, a
\* checkCollision call finds an obstacle.
C9_Witness ==
    /\ level.pc = "done" /\ cameraX > 0
    /\ probe.call = "checkCollision" /\ probe.result

\* C10 as claimed: after a fetch that delivered a parsed theme, the Level's theme
\* is that theme.
C10_ParsedThemeKept ==
    (probe.call = "loadTheme" /\ probe.outcome.kind = "parsed")
        => level.theme = probe.outcome.theme

\* the ladder of getAchievementMessage: each label with the first unit it is for
Ladder ==
    << [from |-> 0, label |-> "Keep practicing!"],
       [from |-> 50, label |-> "Getting warmed up!"],
       [from |-> 100, label |-> "Nice run!"],
       [from |-> 200, label |-> "Great distance!"],
       [from |-> 300, label |-> "Excellent performance!"],
       [from |-> 500, label |-> "Outstanding run!"],
       [from |-> 750, label |-> "Amazing achievement!"],
       [from |-> 1000, label |-> "Legendary distance!"],
       [from |-> 1500, label |-> "SONIC SPEED MASTER!"] >>

Thresholds == {Ladder[i].from : i \in 2..Len(Ladder)}

LabelRank(label) == CHOOSE i \in 1..Len(Ladder) : Ladder[i].label = label

\* C11: the opacity the overlay draws is 0 while its clock is at 0, exactly 1 once
\* the clock is at fadeInDuration or beyond, t / 500 in between, and never below
\* the opacity of the render before.
C11_OpacityRamp ==
    probe.call = "overlay" =>
        /\ animationTime = 0 => probe.drawn.opacity = 0
        /\ animationTime >= FadeInDuration => probe.drawn.opacity = OpacityOne
        /\ animationTime < FadeInDuration =>
              probe.drawn.opacity * FadeInDuration = animationTime * OpacityOne
        /\ probe.previous <= probe.drawn.opacity
        /\ probe.drawn.opacity >= 0 /\ probe.drawn.opacity <= OpacityOne

\* C11's case: a render in mid-fade draws more than the one before and less than 1.
C11_Witness ==
    /\ probe.call = "overlay"
    /\ animationTime > 0 /\ animationTime < FadeInDuration
    /\ probe.previous > 0 /\ probe.previous < probe.drawn.opacity
    /\ probe.drawn.opacity < OpacityOne

\* C12 as claimed: a run that ends at exactly a threshold of the ladder gets the
\* label of the bracket that ends at that threshold, the label of one unit less.
C12_ThresholdClosesBracket ==
    (probe.call = "overlay" /\ probe.drawn.meters \in Thresholds) =>
        probe.drawn.label = GetAchievementMessage(cameraX - Px(10))

\* C12, amended: a run that ends at exactly a threshold of the ladder gets the
\* label of the bracket that starts at that threshold (brackets are lower-inclusive
\* and upper-exclusive), which is not the label of one unit less.
C12_ThresholdOpensBracket ==
    (probe.call = "overlay" /\ probe.drawn.meters \in Thresholds) =>
        /\ \E i \in 2..Len(Ladder) :
              /\ Ladder[i].from = probe.drawn.meters
              /\ probe.drawn.label = Ladder[i].label
              /\ GetAchievementMessage(cameraX - Px(10)) = Ladder[i - 1].label
        /\ probe.drawn.label # GetAchievementMessage(cameraX - Px(10))

\* C12's case: the overlay shows a run that ended at exactly 500 units.
C12_Witness ==
    probe.call = "overlay" /\ probe.drawn.shown /\ probe.drawn.meters = 500
        /\ cameraX = Px(5000)

\* C13: the unit shown is floor(distance / 10); the label is the one of the ladder
\* whose bracket holds that unit, so one label for every distance; under 50 units
\* it is "Keep practicing!", from 1500 units on the top label; and the label of a
\* run one frame longer never ranks lower.
C13_ScoreAndLabel ==
    probe.call = "overlay" =>
        /\ probe.drawn.meters * Px(10) <= cameraX
        /\ cameraX < (probe.drawn.meters + 1) * Px(10)
        /\ probe.drawn.label =
              Ladder[Cardinality({i \in 1..Len(Ladder) :
                                      Ladder[i].from <= probe.drawn.meters})].label
        /\ probe.drawn.meters < 50 => probe.drawn.label = "Keep practicing!"
        /\ probe.drawn.meters >= 1500 => probe.drawn.label = "SONIC SPEED MASTER!"
        /\ LabelRank(probe.drawn.label)
              <= LabelRank(GetAchievementMessage(cameraX + GameSpeed))

\* C13's case: the overlay shows a distance that is not a whole number of units,
\* in the middle of the ladder.
C13_Witness ==
    /\ probe.call = "overlay" /\ probe.drawn.shown
    /\ cameraX = Px(7498) /\ probe.drawn.meters = 749
    /\ probe.drawn.label = "Outstanding run!"

\* the last obstacle of the live list
LastObstacle(lv) == lv.obstacles[Len(lv.obstacles)]

\* C14 as claimed, in the states that favour it most: the game runs, the theme
\* is loaded and generate-ahead has done its work for the current camera; then
\* the last generated obstacle's x is at least cameraX + 1500.
C14_LastObstacleAhead ==
    (/\ gameRunning /\ IsDefined(level.theme) /\ Len(level.obstacles) > 0
     /\ level.lastObstacleX >= cameraX + Px(GenerateAheadDistance))
        => LastObstacle(level).x >= cameraX + Px(GenerateAheadDistance)

\* C14, amended: after every frame of an active run on a loaded theme the spawn
\* cursor lastObstacleX, where the next obstacle will be placed, is at least
\* cameraX + 1500, and the last generated obstacle ends at most maxDistance before
\* the cursor.
C14_SpawnCursorAhead ==
    [][(gameRunning /\ IsDefined(level.theme) /\ AnimationFrame) =>
          /\ level'.lastObstacleX >= cameraX' + Px(GenerateAheadDistance)
          /\ Len(level'.obstacles) > 0
          /\ LastObstacle(level').x + LastObstacle(level').width
                + level'.theme.obstacles.generation.maxDistance
                    >= level'.lastObstacleX]_vars

\* C14's case: in a run the Level has generated up to its cursor, 1500 or more
\* ahead of the camera, and its last obstacle is nearer than that.
C14_Witness ==
    /\ gameRunning /\ IsDefined(level.theme) /\ cameraX > 0
    /\ Len(level.obstacles) > 0
    /\ level.lastObstacleX >= cameraX + Px(GenerateAheadDistance)
    /\ LastObstacle(level).x < cameraX + Px(GenerateAheadDistance)

\* C15: the obstacle list of a Level, which is in generation order, never
\* decreases in x, through the initial population, generate-ahead and double
\* placements; the spawn cursor is beyond its last obstacle; and what a render
\* leaves of the list it found is the tail of that list, in the same order, at
\* the head of the new list.
C15_GenerationOrder ==
    /\ \A i \in 1..(Len(level.obstacles) - 1) :
          level.obstacles[i].x <= level.obstacles[i + 1].x
    /\ Len(level.obstacles) > 0 => LastObstacle(level).x <= level.lastObstacleX
    /\ probe.call = "render" =>
          \E k \in 0..Len(probe.before) :
              /\ Len(level.obstacles) >= Len(probe.before) - k
              /\ SubSeq(probe.before, k + 1, Len(probe.before))
                    = SubSeq(level.obstacles, 1, Len(probe.before) - k)
              /\ \A i \in 1..k : probe.before[i].x <= cameraX - Px(CleanupDistance)

\* C15's case: a render has dropped obstacles at the head of the list and
\* generated new ones at its end, and the list holds a double placement.
C15_Witness ==
    /\ probe.call = "render" /\ Len(probe.before) > 0 /\ Len(level.obstacles) > 0
    /\ probe.before[1].x < level.obstacles[1].x
    /\ probe.before[Len(probe.before)].x < LastObstacle(level).x
    /\ \E i \in 1..(Len(level.obstacles) - 1) :
          Gap(level.obstacles, i) = level.theme.obstacles.generation.doubleObstacleSpacing

\* C16: an animation frame of a running game moves the camera forward by
\* gameSpeed for each update() it runs (each gameLoop callback that ran its
\* update is queued again, so rafQueue' counts them); the camera moves forward in
\* no other step; it moves back only in the restart, to 0; and the callbacks of a
\* frame that finds the game not running leave the camera and the player alone.
C16_CameraAdvance ==
    [][ /\ AnimationFrame =>
              IF gameRunning
              THEN rafQueue' >= 1 /\ cameraX' = cameraX + rafQueue' * GameSpeed
              ELSE UNCHANGED <<cameraX, player>>
        /\ cameraX' > cameraX => (gameRunning /\ AnimationFrame)
        /\ cameraX' < cameraX => (~gameRunning /\ KeyDown("Enter") /\ cameraX' = 0)
      ]_vars

\* C16's case: the game is over with the player in mid-air, away from the origin,
\* and the callback that was still queued has run and found the game stopped.
C16_Witness ==
    /\ GameOver /\ rafQueue = 0 /\ cameraX > 0
    /\ player.isJumping /\ player.velocityY # 0

\* C17: a resize puts a new Level in place of the current one, with no obstacle
\* and its theme still to load, and the player's y at the ground anchor of the new
\* canvas height; the camera, gameRunning, the player's velocity and airborne flag,
\* the held keys and the overlay's clock stay as they are.
C17_ResizeEffect ==
    [][ (\E h \in CanvasHeights : Resize(h)) =>
          /\ level' = NewLevel(canvasHeight')
          /\ level'.obstacles = << >> /\ level'.pc = "fetching"
          /\ ~IsDefined(level'.theme)
          /\ player'.y = canvasHeight' - Px(130)
          /\ player'.velocityY = player.velocityY
          /\ player'.isJumping = player.isJumping
          /\ player'.x = player.x
          /\ UNCHANGED <<cameraX, gameRunning, keys, animationTime, rafQueue>>
      ]_vars

\* C17's case: the window was resized in mid-jump, in a run away from the origin:
\* the player is airborne and moving, yet at the ground anchor, and the Level is
\* empty and loading, the Level it replaced still loading too.
C17_Witness ==
    /\ gameRunning /\ cameraX > 0
    /\ player.isJumping /\ player.velocityY # 0
    /\ player.y = GroundAnchor(canvasHeight)
    /\ level = NewLevel(canvasHeight) /\ Len(stale) > 0

\* C18: while the current Level's theme load has not completed the Level holds
\* no obstacle and checkCollision is false for the player's box and for every
\* box tried; a frame in that interval leaves the Level as it is and does not end
\* a running game.
C18_AbsentTheme ==
    /\ [](level.pc = "fetching" =>
            /\ ~IsDefined(level.theme)
            /\ level.obstacles = << >> /\ level.lastObstacleX = 0
            /\ ~PlayerCollides
            /\ \A box \in ProbeBoxes(cameraX, canvasHeight) :
                  ~CheckCollision(level.obstacles, box.x, box.y, box.width, box.height))
    /\ [][(level.pc = "fetching" /\ AnimationFrame) =>
            /\ level' = level
            /\ gameRunning => gameRunning']_vars

\* C18's case: the game has run to the last frame followed, where a loaded theme
\* would have had the player in an obstacle, with the first Level still loading.
C18_Witness ==
    /\ gameRunning /\ level.pc = "fetching" /\ Len(stale) = 0
    /\ cameraX = MaxFrames * GameSpeed /\ rafQueue > 0

\* obstacle o is in the live list of the current Level
Live(o) == \E j \in 1..Len(level.obstacles) : level.obstacles[j] = o

\* C19 as claimed: after a render with a loaded theme, an obstacle the render
\* found in the list is gone exactly if its x is less than cameraX - 500.
C19_DropsBeyond500 ==
    (probe.call = "render" /\ IsDefined(level.theme)) =>
        \A i \in 1..Len(probe.before) :
            ~Live(probe.before[i])
                <=> probe.before[i].x < cameraX - Px(CleanupDistance)

\* C19, amended: after a render with a loaded theme, an obstacle the render found
\* in the list is gone exactly if its x is at most cameraX - 500, the obstacle
\* exactly 500 behind the camera included, and every obstacle of the list is
\* less than 500 behind the camera.
C19_DropsFrom500 ==
    (probe.call = "render" /\ IsDefined(level.theme)) =>
        /\ \A i \in 1..Len(probe.before) :
              ~Live(probe.before[i])
                  <=> probe.before[i].x <= cameraX - Px(CleanupDistance)
        /\ \A j \in 1..Len(level.obstacles) :
              level.obstacles[j].x > cameraX - Px(CleanupDistance)

\* C19's case: a render found an obstacle exactly 500 behind the camera and
\* dropped it, and kept a nearer one.
C19_Witness ==
    /\ probe.call = "render" /\ IsDefined(level.theme)
    /\ \E i \in 1..Len(probe.before) :
          /\ probe.before[i].x = cameraX - Px(CleanupDistance)
          /\ ~Live(probe.before[i])
    /\ \E i \in 1..Len(probe.before) : Live(probe.before[i])

\* the update brought the player down to the ground line: the ground collision
\* of update(), which follows the jump and gravity, has stopped it there
Landed ==
    /\ player.y + player.velocityY + Gravity + player.height >= GroundY(canvasHeight)
    /\ player'.y + player'.height = GroundY(canvasHeight')
    /\ player'.velocityY = 0 /\ ~player'.isJumping

\* the player as the jump and the gravity of update() leave it, before the
\* ground collision
AfterGravity == UpdateGravity(UpdateJump(player, keys))

\* C20: in a frame of a running game that runs one update, a player on the ground
\* with the space key held has velocity -jumpPower + gravity and is airborne once
\* the jump and gravity are done: the jump is applied before gravity; an airborne
\* player's velocity is then its old velocity + gravity exactly, whether or not
\* the space key is held.  The update ends with the ground collision: the player
\* keeps that velocity, or is stopped on the ground line.
C20_JumpRule ==
    [][(gameRunning /\ rafQueue = 1 /\ JumpFrame) =>
          /\ (keys[" "] /\ ~player.isJumping) =>
                /\ AfterGravity.velocityY = -JumpPower + Gravity
                /\ AfterGravity.isJumping
                /\ player'.velocityY = -JumpPower + Gravity
                /\ player'.y = player.y - JumpPower + Gravity
                /\ player'.isJumping
          /\ player.isJumping =>
                /\ AfterGravity.velocityY = player.velocityY + Gravity
                /\ AfterGravity.isJumping
                /\ \/ /\ player'.velocityY = player.velocityY + Gravity
                      /\ player'.y = player.y + player.velocityY + Gravity
                      /\ player'.isJumping
                   \/ Landed
          /\ (~keys[" "] /\ ~player.isJumping) =>
                player'.velocityY = 0 /\ ~player'.isJumping /\ player'.y = player.y
          /\ player' = UpdateGround(AfterGravity, canvasHeight)
      ]_vars

\* C20's case: the player comes down from a jump with the space key held, its
\* speed a whole number of gravity steps from -jumpPower.
C20_Witness ==
    /\ gameRunning /\ keys[" "] /\ player.isJumping
    /\ player.velocityY > 0
    /\ (player.velocityY + JumpPower) % Gravity = 0
    /\ player.y < GroundAnchor(canvasHeight)

\* the player's bottom edge
Bottom(p) == p.y + p.height

\* C21: the player's bottom edge is never below the ground line, canvas.height -
\* 50; an update of a running game that brings it to the line or below leaves the
\* player on the line with velocityY 0 and not airborne, and any other update
\* leaves it where the jump and gravity put it.
C21_GroundClamp ==
    /\ [](Bottom(player) <= canvasHeight - Px(50))
    /\ [][(gameRunning /\ rafQueue = 1 /\ JumpFrame) =>
            IF Bottom(AfterGravity) >= canvasHeight - Px(50)
            THEN /\ Bottom(player') = canvasHeight' - Px(50)
                 /\ player'.velocityY = 0
                 /\ ~player'.isJumping
            ELSE player' = AfterGravity]_vars

\* C21's case: a run long enough for a whole jump, the player back on the ground
\* line at rest, the space key held.
C21_Witness ==
    /\ gameRunning /\ cameraX >= 169 * GameSpeed /\ keys[" "]
    /\ ~player.isJumping /\ player.velocityY = 0
    /\ Bottom(player) = GroundY(canvasHeight)

\* the deltaTime render() hands to the overlay: Date.now() - this.lastTime
DeltaTimes == {now - lastTime : now \in Nows}

\* C22: an animation frame whose update finds a collision ends with the game not
\* running and with the overlay's clock holding the deltaTime of that frame's one
\* overlay render and nothing more: the clock was put to 0 in the update, before
\* the render, whatever an earlier game over had left on it.
C22_ResetBeforeOverlay ==
    [][CollisionFrame => (~gameRunning' /\ animationTime' \in DeltaTimes)]_vars

\* C22's case: an earlier game over left time on the overlay's clock, run() has
\* resumed the game, and the player is in an obstacle again as the next frame
\* is due.
C22_Witness ==
    /\ gameRunning /\ rafQueue > 0 /\ animationTime > 0
    /\ PlayerCollides /\ cameraX < MaxFrames * GameSpeed

\* C23 as claimed: the overlay render of the frame that ends a run has opacity
\* below 1, and every animation frame of a game that is over renders the overlay
\* again, its clock moving on by that frame's deltaTime.
C23_OverlayRamps ==
    [][ /\ CollisionFrame => Opacity(animationTime') < OpacityOne
        /\ (GameOver /\ AnimationFrame) => animationTime' > animationTime ]_vars

\* C24 as claimed: a running game never has more than one gameLoop callback
\* waiting for the next animation frame, and no animation frame moves the camera
\* by more than gameSpeed.
C24_OneUpdatePerFrame ==
    /\ [](gameRunning => rafQueue <= 1)
    /\ [][AnimationFrame => cameraX' <= cameraX + GameSpeed]_vars

\* C25: the completion of a superseded Level's theme load changes nothing the
\* controller holds: not its current Level (theme, sprites, obstacles, spawn
\* cursor, load state), the camera, the player, the run state, the keys, the
\* canvas height, the overlay clock or the pending callbacks; it only ends that
\* instance's load. This holds whether the current Level's own load has
\* completed before it or not, and a step that ends the current Level's load in
\* turn changes the current Level only and leaves the superseded loads pending.
C25_StaleLoadIsolated ==
    [][ /\ (Len(stale') < Len(stale) /\ StaleThemeLoaded) =>
              UNCHANGED <<level, cameraX, player, gameRunning, keys,
                          canvasHeight, animationTime, rafQueue, lastTime>>
        /\ (level.pc = "fetching" /\ level'.pc = "done") =>
              UNCHANGED <<stale, cameraX, player, gameRunning, keys,
                          canvasHeight, animationTime, rafQueue, lastTime>> ]_vars

\* C25's case: a superseded Level's load is still pending in a running game that
\* has moved on, the current Level already loaded and populated.
C25_Witness ==
    /\ Len(stale) > 0 /\ gameRunning /\ cameraX > 0
    /\ level.pc = "done" /\ Len(level.obstacles) > 0

\* the world x of the player's right edge: cameraX + player.x + player.width
PlayerRightEdge(camX, p) == camX + p.x + p.width

\* the obstacles of `after` that `before` does not hold
Added(before, after) ==
    {after[i] : i \in {j \in 1..Len(after) :
                          \A k \in 1..Len(before) : before[k] # after[j]}}

\* C26 as claimed: every obstacle a step adds to the current Level's live list, at
\* the end of its theme load or in a render's generate-ahead, lies beyond the
\* player's right edge in world space at that moment.
C26_ObstaclesAhead ==
    [][\A o \in Added(level.obstacles, level'.obstacles) :
            o.x > PlayerRightEdge(cameraX', player')]_vars

===========================================================================
